---- MODULE Spec2Model ----
(***************************************************************************)
(* Model of the fake store API (sample_apis/shop_api_main.py): the         *)
(* in-memory catalog store_inventory, the two endpoints list_store_items   *)
(* and purchase_item, and the clients that call them.                      *)
(*                                                                         *)
(* price, tax and total_price are Python floats (IEEE-754 binary64).  A    *)
(* float is modelled exactly: its magnitude is a natural number counted in *)
(* units of 2^-80 and held as little-endian limbs of 20 bits, and every    *)
(* float operation rounds the exact result to 53 significant bits, ties to *)
(* even, as the hardware does.                                             *)
(***************************************************************************)
EXTENDS Integers, Sequences, FiniteSets, TLC

(***************************************************************************)
(* Bounds of the model.                                                    *)
(***************************************************************************)
MaxQty == 7
MaxProductId == 6
NumCallers == 2
MaxSchemaCalls == 4
MaxInputs == 3
MaxToolRounds == 1

(***************************************************************************)
(* Natural numbers of up to 100 bits, as 5 limbs of 20 bits.               *)
(***************************************************************************)
Base == 2^20
BigZero == <<0, 0, 0, 0, 0>>

Pow2(n) == 2^n

\* The limbs of x + y + c from limb i on, c the carry into limb i.
RECURSIVE AddFrom(_, _, _, _)
AddFrom(x, y, i, c) ==
  IF i > 5 THEN <<>>
  ELSE LET s == x[i] + y[i] + c
       IN  <<s % Base>> \o AddFrom(x, y, i + 1, s \div Base)

BigAdd(x, y) == AddFrom(x, y, 1, 0)

\* The limbs of x - y - b from limb i on (x >= y), b the borrow out of limb i-1.
RECURSIVE SubFrom(_, _, _, _)
SubFrom(x, y, i, b) ==
  IF i > 5 THEN <<>>
  ELSE LET s == x[i] - y[i] - b
       IN  IF s < 0 THEN <<s + Base>> \o SubFrom(x, y, i + 1, 1)
                    ELSE <<s>> \o SubFrom(x, y, i + 1, 0)

BigSub(x, y) == SubFrom(x, y, 1, 0)

\* x < y, compared from the most significant limb down.
RECURSIVE LessFrom(_, _, _)
LessFrom(x, y, i) ==
  IF i < 1 THEN FALSE
  ELSE IF x[i] # y[i] THEN x[i] < y[i]
  ELSE LessFrom(x, y, i - 1)

BigLess(x, y) == LessFrom(x, y, 5)

\* The limbs of x * k + c from limb i on, k a small natural number.
RECURSIVE MulFrom(_, _, _, _)
MulFrom(x, k, i, c) ==
  IF i > 5 THEN <<>>
  ELSE LET s == x[i] * k + c
       IN  <<s % Base>> \o MulFrom(x, k, i + 1, s \div Base)

BigMulSmall(x, k) == MulFrom(x, k, 1, 0)

\* <<quotient limbs below limb i+1, remainder>> of x \div k, long division
\* from the most significant limb down, r the remainder carried into limb i.
RECURSIVE DivFrom(_, _, _, _)
DivFrom(x, k, i, r) ==
  IF i < 1 THEN <<<<>>, r>>
  ELSE LET cur == r * Base + x[i]
           rest == DivFrom(x, k, i - 1, cur % k)
       IN  <<rest[1] \o <<cur \div k>>, rest[2]>>

BigDivSmall(x, k) == DivFrom(x, k, 5, 0)

\* Number of bits of a limb (0 for 0).
RECURSIVE LimbLen(_)
LimbLen(v) == IF v = 0 THEN 0 ELSE 1 + LimbLen(v \div 2)

\* Number of significant bits of x.
RECURSIVE LenFrom(_, _)
LenFrom(x, i) ==
  IF i < 1 THEN 0
  ELSE IF x[i] # 0 THEN 20 * (i - 1) + LimbLen(x[i])
  ELSE LenFrom(x, i - 1)

BitLen(x) == LenFrom(x, 5)

\* Bit n of x (bit 0 is the least significant).
Bit(x, n) == (x[(n \div 20) + 1] \div Pow2(n % 20)) % 2

\* The part of limb i of x that lies below bit n of x.
LimbBelow(x, i, n) ==
  IF 20 * i <= n THEN x[i]
  ELSE IF 20 * (i - 1) >= n THEN 0
  ELSE x[i] % Pow2(n - 20 * (i - 1))

\* x mod 2^n, and x with its n low bits cleared.
LowBits(x, n) ==
  LET F(i) == LimbBelow(x, i, n) IN <<F(1), F(2), F(3), F(4), F(5)>>
ClearLow(x, n) ==
  LET F(i) == x[i] - LimbBelow(x, i, n) IN <<F(1), F(2), F(3), F(4), F(5)>>

\* 2^n as limbs.
BigPow2(n) ==
  LET F(i) == IF i = (n \div 20) + 1 THEN Pow2(n % 20) ELSE 0
  IN  <<F(1), F(2), F(3), F(4), F(5)>>

(***************************************************************************)
(* IEEE-754 binary64 rounding: x (with sticky telling that the exact value *)
(* lies strictly above x and below x + 1) rounded to MantBits significant  *)
(* bits, round-half-to-even.                                               *)
(***************************************************************************)
MantBits == 53

Round53(x, sticky) ==
  LET len == BitLen(x)
      d == len - MantBits
  IN  IF d <= 0 THEN x
      ELSE LET guard == Bit(x, d - 1)
               below == sticky \/ LowBits(x, d - 1) # BigZero
               odd == Bit(x, d) = 1
               kept == ClearLow(x, d)
           IN  IF guard = 1 /\ (below \/ odd)
               THEN BigAdd(kept, BigPow2(d))
               ELSE kept

(***************************************************************************)
(* Python values.  None is a record of its own; a float is its sign and    *)
(* its magnitude in units of 2^-80.                                        *)
(***************************************************************************)
None == [none |-> TRUE]

Float(neg, mag) == [neg |-> neg /\ mag # BigZero, mag |-> mag]

\* float(n) for an integer n: exact for the small integers of the model.
IntToFloat(n) ==
  LET a == IF n < 0 THEN -n ELSE n
  IN  Float(n < 0, <<0, 0, 0, 0, a>>)

\* The float a decimal literal with two decimals denotes (999.99 is
\* DecToDouble(99999)): cents/100 correctly rounded, as Python reads it.
DecToDouble(cents) ==
  LET qr == BigDivSmall(<<0, 0, 0, 0, cents>>, 100)
  IN  Float(FALSE, Round53(qr[1], qr[2] # 0))

\* x + y on floats: the exact sum, rounded.
FAdd(x, y) ==
  IF x.neg = y.neg THEN Float(x.neg, Round53(BigAdd(x.mag, y.mag), FALSE))
  ELSE IF BigLess(x.mag, y.mag)
       THEN Float(y.neg, Round53(BigSub(y.mag, x.mag), FALSE))
       ELSE Float(x.neg, Round53(BigSub(x.mag, y.mag), FALSE))

\* x * n for a float x and an int n: n is converted to float (exactly) and
\* the exact product is rounded.
FMulInt(x, n) ==
  LET a == IF n < 0 THEN -n ELSE n
  IN  Float(x.neg # (n < 0), Round53(BigMulSmall(x.mag, a), FALSE))

(***************************************************************************)
(* Data model: StoreItem and PurchaseOrder.                                *)
(***************************************************************************)
StoreItem(id, name, description, price, tax) ==
  [id |-> id, name |-> name, description |-> description,
   price |-> price, tax |-> tax]

\* The module-level list store_inventory as the source writes it.
SeedInventory ==
  << StoreItem(1, "Surface Laptop",
               "A sleek Microsoft laptop with an elegant design and robust performance.",
               DecToDouble(99999), DecToDouble(9999)),
     StoreItem(2, "Wireless Mouse",
               "An ergonomic wireless mouse with long battery life.",
               DecToDouble(4999), DecToDouble(499)),
     StoreItem(3, "Pizza", "A tasteful argentinian style pizza.",
               DecToDouble(999), DecToDouble(199)),
     StoreItem(4, "Frico", "Delicacy from Udine.",
               DecToDouble(999), DecToDouble(199)) >>

\* Catalogs the StoreItem model also admits ("Additional fake items can be
\* added here"): the seed items followed by an item without tax and an item
\* with tax 0.0; and the seed items followed by a second item with id 3.
ExtendedInventory ==
  SeedInventory \o
  << StoreItem(5, "Sticker", "A sticker.", DecToDouble(200), None),
     StoreItem(6, "Gift Card", "A gift card.", DecToDouble(2500), DecToDouble(0)) >>

DuplicateInventory ==
  SeedInventory \o
  << StoreItem(3, "Calzone", "A folded pizza.", DecToDouble(1250), DecToDouble(125)) >>

Catalogs == {SeedInventory, ExtendedInventory, DuplicateInventory}

ProductIds == 0..MaxProductId
BuyerNames == {"Alice", "Bob"}
Quantities == (-MaxQty)..MaxQty

\* The JSON bodies a client posts to /store/buy: quantity may be left out.
PayloadsWith(quantities) ==
  [product_id : ProductIds, buyer_name : BuyerNames, quantity : quantities]
  \cup [product_id : ProductIds, buyer_name : BuyerNames]

Payloads == PayloadsWith(Quantities)

\* The bodies posted where several callers run side by side: every product
\* id and buyer, the quantity left out or the largest.
ConcurrentPayloads == PayloadsWith({MaxQty})

\* Mutant: the quantity field defaults to 0.
PurchaseOrder_DefaultZero(payload) ==
  [product_id |-> payload.product_id,
   buyer_name |-> payload.buyer_name,
   quantity |-> IF "quantity" \in DOMAIN payload THEN payload.quantity ELSE 0]

\* PurchaseOrder(**payload): the quantity field defaults to 1.
PurchaseOrder(payload) ==
  [product_id |-> payload.product_id,
   buyer_name |-> payload.buyer_name,
   quantity |-> IF "quantity" \in DOMAIN payload THEN payload.quantity ELSE 1]

(***************************************************************************)
(* purchase_item, as a function of the order and the catalog it reads.     *)
(***************************************************************************)
\* Python truth value of an Optional[float]: None and 0.0 are false.
Truthy(x) == x # None /\ x.mag # BigZero

Min(S) == CHOOSE m \in S : \A n \in S : m <= n

Max(S) == CHOOSE m \in S : \A n \in S : m >= n

\* Mutant: the scan keeps the last match instead of stopping at the first.
FindProduct_Last(inventory, product_id) ==
  LET hits == {i \in 1..Len(inventory) : inventory[i].id = product_id}
  IN  IF hits = {} THEN None ELSE inventory[Max(hits)]

\* next((item for item in inventory if item.id == product_id), None)
FindProduct(inventory, product_id) ==
  LET hits == {i \in 1..Len(inventory) : inventory[i].id = product_id}
  IN  IF hits = {} THEN None ELSE inventory[Min(hits)]

\* (product.tax or 0) * order.quantity.  When tax is None or 0.0 this is the
\* int 0 * quantity = 0, which the float addition reads as 0.0.
TaxAmount(product, quantity) ==
  IF Truthy(product.tax) THEN FMulInt(product.tax, quantity) ELSE IntToFloat(0)

\* Mutant: (product.price + (product.tax or 0)) * order.quantity.
TotalPrice_Factored(product, quantity) ==
  FMulInt(FAdd(product.price,
               IF Truthy(product.tax) THEN product.tax ELSE IntToFloat(0)),
          quantity)

\* (product.price * order.quantity) + ((product.tax or 0) * order.quantity)
TotalPrice(product, quantity) ==
  FAdd(FMulInt(product.price, quantity), TaxAmount(product, quantity))

\* Mutant: the message leaves the buyer out.
ThankYou_NoName(buyer_name) == "Thank you for your purchase!"

\* f"Thank you {order.buyer_name} for your purchase!"
ThankYou(buyer_name) == "Thank you " \o buyer_name \o " for your purchase!"

\* Mutant: the detail does not carry the id.
NotFound_NoId(product_id) ==
  [status |-> 404, detail |-> "Product not found."]

\* HTTPException(status_code=404, detail=f"Product with ID {product_id} not found.")
NotFound(product_id) ==
  [status |-> 404,
   detail |-> "Product with ID " \o ToString(product_id) \o " not found."]

\* The order_confirmation dict, returned with status 200.
Confirmation(order, product) ==
  [status |-> 200,
   body |-> [message |-> ThankYou(order.buyer_name),
             product |-> product,
             quantity |-> order.quantity,
             total_price |-> TotalPrice(product, order.quantity)]]

\* Mutant: the "if not product" check is missing; product.price on None
\* raises AttributeError, which the framework answers with status 500.
PurchaseResult_NoCheck(order, inventory) ==
  LET product == FindProduct(inventory, order.product_id)
  IN  IF product = None THEN [status |-> 500, detail |-> "Internal Server Error"]
      ELSE Confirmation(order, product)

\* Mutant: quantities below 1 are rejected.
PurchaseResult_PositiveOnly(order, inventory) ==
  LET product == FindProduct(inventory, order.product_id)
  IN  IF product = None THEN NotFound(order.product_id)
      ELSE IF order.quantity < 1
           THEN [status |-> 422, detail |-> "Quantity must be positive."]
           ELSE Confirmation(order, product)

\* The body of purchase_item: what the call answers.
PurchaseResult(order, inventory) ==
  LET product == FindProduct(inventory, order.product_id)
  IN  IF product = None THEN NotFound(order.product_id)
      ELSE Confirmation(order, product)

(***************************************************************************)
(* State: the catalog, and for every caller its request in flight and the  *)
(* response the server has produced for it.                                *)
(***************************************************************************)
VARIABLES store_inventory, request, response

\* Each application's app.openapi_schema, the number of get_openapi and of
\* custom_openapi calls made on it, and what custom_openapi last returned to
\* each caller.
VARIABLES openapi_schema, generated, schema_calls, schema_reply

\* The shop agent (sk_shop_api_agent.py): its ChatHistory, where main()
\* stands, the inputs read so far, the histories handed to the chat service,
\* the replies it gave, and the function-call rounds of the running request.
VARIABLES history, agent_pc, typed, sent, replies, tool_rounds

shop_vars == <<store_inventory, request, response>>
openapi_vars == <<openapi_schema, generated, schema_calls, schema_reply>>
agent_vars == <<history, agent_pc, typed, sent, replies, tool_rounds>>

vars == <<store_inventory, request, response,
          openapi_schema, generated, schema_calls, schema_reply,
          history, agent_pc, typed, sent, replies, tool_rounds>>

Callers == 1..NumCallers

Idle == [op |-> "idle"]
NoResponse == [status |-> 0]

BuyRequest(payload) == [op |-> "buy", payload |-> payload]
ListRequest == [op |-> "list"]

(***************************************************************************)
(* custom_openapi, of shop_api_main.py and of fake_api_main.py.            *)
(***************************************************************************)
Apps == {"shop", "fake"}

\* FastAPI(title=..., description=..., version=...) and the routes declared.
AppTitle(a) == IF a = "shop" THEN "Fake Store API" ELSE "Demo API"
AppVersion(a) == "1.0.0"
AppDescription(a) ==
  IF a = "shop"
  THEN "This API simulates a fake store experience. It offers endpoints to "
       \o "list available store items and to purchase a specific item. The detailed "
       \o "metadata is tailored for LLM agentic orchestration through semantic Swagger docs."
  ELSE "This API demonstrates how to create and document endpoints with detailed "
       \o "Swagger docs. Endpoints include item creation, retrieval, and listing all available items. "
       \o "This rich metadata is designed for LLM agentic frameworks or similar systems."
AppRoutes(a) ==
  IF a = "shop" THEN {<<"get", "/store/items">>, <<"post", "/store/buy">>}
  ELSE {<<"post", "/items/">>, <<"get", "/items/">>, <<"get", "/items/{item_id}">>}

\* get_openapi(title, version, description, routes): the generated schema,
\* a dict without a "servers" key.
GetOpenapi(a) ==
  [info |-> [title |-> AppTitle(a), version |-> AppVersion(a),
             description |-> AppDescription(a)],
   paths |-> AppRoutes(a)]

\* The list assigned to openapi_schema["servers"].
Servers ==
  << [url |-> "http://127.0.0.1:8000", description |-> "Local development server"] >>

NoReply == [app |-> "none"]

OpenapiInit ==
  /\ openapi_schema = [a \in Apps |-> None]
  /\ generated = [a \in Apps |-> 0]
  /\ schema_calls = [a \in Apps |-> 0]
  /\ schema_reply = [c \in Callers |-> NoReply]

\* Mutant: the "if app.openapi_schema" shortcut is missing.
custom_openapi_NoCache(a, c) ==
  LET schema == [servers |-> Servers] @@ GetOpenapi(a)
  IN  /\ schema_calls[a] < MaxSchemaCalls
      /\ schema_calls' = [schema_calls EXCEPT ![a] = @ + 1]
      /\ generated' = [generated EXCEPT ![a] = @ + 1]
      /\ openapi_schema' = [openapi_schema EXCEPT ![a] = schema]
      /\ schema_reply' = [schema_reply EXCEPT ![c] = [app |-> a, schema |-> schema]]
      /\ UNCHANGED <<shop_vars, agent_vars>>

\* Mutant: the servers entry is added to the returned copy only, after the
\* generated schema was stored.
custom_openapi_ServersLate(a, c) ==
  /\ schema_calls[a] < MaxSchemaCalls
  /\ schema_calls' = [schema_calls EXCEPT ![a] = @ + 1]
  /\ IF openapi_schema[a] # None
     THEN /\ schema_reply' =
               [schema_reply EXCEPT ![c] = [app |-> a, schema |-> openapi_schema[a]]]
          /\ UNCHANGED <<openapi_schema, generated>>
     ELSE /\ generated' = [generated EXCEPT ![a] = @ + 1]
          /\ openapi_schema' = [openapi_schema EXCEPT ![a] = GetOpenapi(a)]
          /\ schema_reply' = [schema_reply EXCEPT ![c] =
               [app |-> a, schema |-> [servers |-> Servers] @@ GetOpenapi(a)]]
  /\ UNCHANGED <<shop_vars, agent_vars>>

\* custom_openapi() of application a, called for caller c.  It is a plain
\* function without await: one call is one step.
custom_openapi(a, c) ==
  /\ schema_calls[a] < MaxSchemaCalls
  /\ schema_calls' = [schema_calls EXCEPT ![a] = @ + 1]
  /\ IF openapi_schema[a] # None
     THEN /\ schema_reply' =
               [schema_reply EXCEPT ![c] = [app |-> a, schema |-> openapi_schema[a]]]
          /\ UNCHANGED <<openapi_schema, generated>>
     ELSE LET schema == [servers |-> Servers] @@ GetOpenapi(a)
          IN  /\ generated' = [generated EXCEPT ![a] = @ + 1]
              /\ openapi_schema' = [openapi_schema EXCEPT ![a] = schema]
              /\ schema_reply' =
                   [schema_reply EXCEPT ![c] = [app |-> a, schema |-> schema]]
  /\ UNCHANGED <<shop_vars, agent_vars>>

NextOpenapi == \E a \in Apps : \E c \in Callers : custom_openapi(a, c)

(***************************************************************************)
(* The interactive loop of the shop agent, sk_shop_api_agent.py main().    *)
(* A text is the sequence of its characters.                               *)
(***************************************************************************)
UpperCase == <<"A", "B", "C", "D", "E", "F", "G", "H", "I", "J", "K", "L", "M",
               "N", "O", "P", "Q", "R", "S", "T", "U", "V", "W", "X", "Y", "Z">>
LowerCase == <<"a", "b", "c", "d", "e", "f", "g", "h", "i", "j", "k", "l", "m",
               "n", "o", "p", "q", "r", "s", "t", "u", "v", "w", "x", "y", "z">>

\* str.lower(): every upper-case letter becomes its lower-case letter.
LowerChar(ch) ==
  IF \E i \in 1..Len(UpperCase) : UpperCase[i] = ch
  THEN LowerCase[CHOOSE i \in 1..Len(UpperCase) : UpperCase[i] = ch]
  ELSE ch
Lower(text) == [i \in 1..Len(text) |-> LowerChar(text[i])]

\* ["exit", "quit"]
ExitWords == { <<"e", "x", "i", "t">>, <<"q", "u", "i", "t">> }

\* What the user may type at "User > ".
UserInputs ==
  { <<"e", "x", "i", "t">>, <<"E", "X", "I", "T">>, <<"Q", "u", "i", "t">>,
    <<"h", "i">>, <<"B", "u", "y">>, <<"e", "x", "i", "t", " ">> }

\* str(result) of the chat service's answers.
ReplyTexts == {"Hello!", "Done."}

\* The functions of the plugin loaded from OPENAPI_FILE.
PluginFunctions == {"list_store_items", "purchase_item"}

SYSTEM_MESSAGE ==
  "\nYou are a helpful assistant that can answer questions about the products available in the store."
  \o "\nLimit yourself to questions related to the store."
  \o "\nIf the user asks about something else, please inform them that you can only answer questions related to the store.\n"

SystemMessage == [role |-> "system", content |-> SYSTEM_MESSAGE]
UserMessage(text) == [role |-> "user", content |-> text]
AssistantMessage(text) == [role |-> "assistant", content |-> text]
\* The messages the chat service puts into the ChatHistory it was handed
\* when, under FunctionChoiceBehavior.Auto(), the model calls a function.
FunctionCallMessage(f) == [role |-> "assistant", function_call |-> f]
FunctionResultMessage(f) == [role |-> "tool", function_result |-> f]

AgentInit ==
  /\ history = <<SystemMessage>>
  /\ agent_pc = "input"
  /\ typed = <<>>
  /\ sent = <<>>
  /\ replies = <<>>
  /\ tool_rounds = 0

\* Mutant: the input is compared without lower().
ReadInput_CaseSensitive(text) ==
  /\ agent_pc = "input"
  /\ Len(typed) < MaxInputs
  /\ typed' = Append(typed, text)
  /\ IF text \in ExitWords
     THEN /\ agent_pc' = "exited"
          /\ UNCHANGED <<history, sent>>
     ELSE /\ history' = Append(history, UserMessage(text))
          /\ sent' = Append(sent, history')
          /\ agent_pc' = "await"
  /\ UNCHANGED <<replies, tool_rounds, shop_vars, openapi_vars>>

\* One pass of the loop from input() to the await: exit on "exit"/"quit" in
\* any case, else add the user message and call the chat service with the
\* history.
ReadInput(text) ==
  /\ agent_pc = "input"
  /\ Len(typed) < MaxInputs
  /\ typed' = Append(typed, text)
  /\ IF Lower(text) \in ExitWords
     THEN /\ agent_pc' = "exited"
          /\ UNCHANGED <<history, sent>>
     ELSE /\ history' = Append(history, UserMessage(text))
          /\ sent' = Append(sent, history')
          /\ agent_pc' = "await"
  /\ UNCHANGED <<replies, tool_rounds, shop_vars, openapi_vars>>

\* While main() awaits get_chat_message_content(chat_history=history,
\* settings, kernel): the chat service holds the same ChatHistory object and,
\* when the model calls a plugin function, appends the call and its result.
\* tool_rounds counts these rounds over the whole run, capped by MaxToolRounds.
InvokeFunction(f) ==
  /\ agent_pc = "await"
  /\ tool_rounds < MaxToolRounds
  /\ tool_rounds' = tool_rounds + 1
  /\ history' = history \o <<FunctionCallMessage(f), FunctionResultMessage(f)>>
  /\ UNCHANGED <<agent_pc, typed, sent, replies, shop_vars, openapi_vars>>

\* The await returns result; the loop adds str(result) as assistant message
\* and goes back to input().
ReceiveReply(text) ==
  /\ agent_pc = "await"
  /\ history' = Append(history, AssistantMessage(text))
  /\ replies' = Append(replies, text)
  /\ agent_pc' = "input"
  /\ UNCHANGED <<typed, sent, tool_rounds, shop_vars, openapi_vars>>

NextAgent ==
  \/ \E text \in UserInputs : ReadInput(text)
  \/ \E f \in PluginFunctions : InvokeFunction(f)
  \/ \E text \in ReplyTexts : ReceiveReply(text)

Init ==
  /\ store_inventory = SeedInventory
  /\ request = [c \in Callers |-> Idle]
  /\ response = [c \in Callers |-> NoResponse]
  /\ OpenapiInit
  /\ AgentInit

\* purchase_item over catalogs drawn from Catalogs.
InitCatalog ==
  /\ store_inventory \in Catalogs
  /\ request = [c \in Callers |-> Idle]
  /\ response = [c \in Callers |-> NoResponse]
  /\ OpenapiInit
  /\ AgentInit

\* A client posts an order to /store/buy.
PostStoreBuy(c, payload) ==
  /\ request[c] = Idle
  /\ request' = [request EXCEPT ![c] = BuyRequest(payload)]
  /\ UNCHANGED <<store_inventory, response>>

\* A client gets /store/items.
GetStoreItems(c) ==
  /\ request[c] = Idle
  /\ request' = [request EXCEPT ![c] = ListRequest]
  /\ UNCHANGED <<store_inventory, response>>

\* Mutant: the handler hands out the list newest first, reversing it in place.
list_store_items_Reverse(c) ==
  LET n == Len(store_inventory)
      reversed == [i \in 1..n |-> store_inventory[n + 1 - i]]
  IN  /\ request[c] = ListRequest
      /\ response[c] = NoResponse
      /\ store_inventory' = reversed
      /\ response' = [response EXCEPT ![c] = [status |-> 200, body |-> reversed]]
      /\ UNCHANGED request

\* The handler list_store_items runs for caller c: return store_inventory.
list_store_items(c) ==
  /\ request[c] = ListRequest
  /\ response[c] = NoResponse
  /\ response' = [response EXCEPT ![c] = [status |-> 200, body |-> store_inventory]]
  /\ UNCHANGED <<store_inventory, request>>

\* Mutant: a sold item is taken out of the catalog.
purchase_item_Remove(c) ==
  LET order == PurchaseOrder(request[c].payload)
  IN  /\ request[c].op = "buy"
      /\ response[c] = NoResponse
      /\ response' = [response EXCEPT ![c] = PurchaseResult(order, store_inventory)]
      /\ store_inventory' =
           SelectSeq(store_inventory, LAMBDA item : item.id # order.product_id)
      /\ UNCHANGED request

\* Mutant: the order is kept in one place shared by all calls, so a call
\* works on the order posted by the highest caller waiting.
purchase_item_SharedOrder(c) ==
  LET waiting == {d \in Callers : request[d].op = "buy" /\ response[d] = NoResponse}
  IN  /\ request[c].op = "buy"
      /\ response[c] = NoResponse
      /\ response' = [response EXCEPT ![c] =
            PurchaseResult(PurchaseOrder(request[Max(waiting)].payload), store_inventory)]
      /\ UNCHANGED <<store_inventory, request>>

\* The handler purchase_item runs for caller c.  It has no await: it runs
\* to its return or its raise without another handler in between.
purchase_item(c) ==
  /\ request[c].op = "buy"
  /\ response[c] = NoResponse
  /\ response' = [response EXCEPT ![c] =
                    PurchaseResult(PurchaseOrder(request[c].payload), store_inventory)]
  /\ UNCHANGED <<store_inventory, request>>

\* The client takes its response; it may call again.
Receive(c) ==
  /\ response[c] # NoResponse
  /\ request' = [request EXCEPT ![c] = Idle]
  /\ response' = [response EXCEPT ![c] = NoResponse]
  /\ UNCHANGED store_inventory

Step(c, payloads) ==
  \/ \E payload \in payloads : PostStoreBuy(c, payload)
  \/ GetStoreItems(c)
  \/ list_store_items(c)
  \/ purchase_item(c)
  \/ Receive(c)

\* Any number of callers, in any interleaving.
Next == (\E c \in Callers : Step(c, ConcurrentPayloads)) /\ UNCHANGED <<openapi_vars, agent_vars>>

\* One caller, one call after the other, every payload.
NextSerial == Step(1, Payloads) /\ UNCHANGED <<openapi_vars, agent_vars>>

Spec == Init /\ [][Next]_vars

SpecCatalog == InitCatalog /\ [][NextSerial]_vars

\* The two applications' custom_openapi, called by any caller in any order.
SpecOpenapi == Init /\ [][NextOpenapi]_vars

\* The shop agent's loop, with the user and the chat service as environment.
SpecAgent == Init /\ [][NextAgent]_vars

(***************************************************************************)
(* Vocabulary of the properties.                                           *)
(***************************************************************************)
Answered(c) == response[c] # NoResponse
Purchased(c) == request[c].op = "buy" /\ Answered(c)
Listed(c) == request[c] = ListRequest /\ Answered(c)

\* The order of caller c as the handler receives it.
OrderId(c) == request[c].payload.product_id
OrderBuyer(c) == request[c].payload.buyer_name
HasQuantity(c) == "quantity" \in DOMAIN request[c].payload
OrderQuantity(c) == IF HasQuantity(c) THEN request[c].payload.quantity ELSE 1

\* The catalog positions whose id is the ordered one.
Hits(c) == {i \in 1..Len(store_inventory) : store_inventory[i].id = OrderId(c)}
FirstHit(c) == store_inventory[CHOOSE i \in Hits(c) : \A j \in Hits(c) : i <= j]

UniqueIds(inventory) ==
  \A i, j \in 1..Len(inventory) : inventory[i].id = inventory[j].id => i = j

IsConfirmation(r) == r.status = 200 /\ DOMAIN r = {"status", "body"}
IsNotFound(r) == r.status = 404 /\ DOMAIN r = {"status", "detail"}
Confirmed(c) == Purchased(c) /\ IsConfirmation(response[c])

\* P.tax when a tax is present, 0 when it is absent.
EffectiveTax(P) == IF P.tax = None THEN IntToFloat(0) ELSE P.tax

\* (P.price + effective_tax) * quantity, evaluated on floats as written.
SumThenMultiply(P, quantity) == FMulInt(FAdd(P.price, EffectiveTax(P)), quantity)

\* (P.price * quantity) + (effective_tax * quantity), evaluated on floats.
MultiplyThenSum(P, quantity) ==
  FAdd(FMulInt(P.price, quantity), FMulInt(EffectiveTax(P), quantity))

C2_NotFound ==
  \A c \in Callers : (Purchased(c) /\ Hits(c) = {}) =>
    response[c] =
      [status |-> 404,
       detail |-> "Product with ID " \o ToString(OrderId(c)) \o " not found."]

C2_Witness ==
  \E c \in Callers :
    /\ Purchased(c)
    /\ Hits(c) = {}
    /\ OrderId(c) > 0
    /\ response[c].status = 404

(***************************************************************************)
(* C3                                                                      *)
(***************************************************************************)
\* C3: whatever calls have run, the catalog is the seed inventory, and a
\* list_store_items call answers exactly the seed inventory, in seed order.
C3_CatalogUnchanged ==
  /\ store_inventory = SeedInventory
  /\ \A c \in Callers : Listed(c) =>
       response[c] = [status |-> 200, body |-> SeedInventory]

\* One caller holds a confirmation and another the listing.
C3_Witness ==
  \E c, d \in Callers :
    /\ c # d
    /\ Confirmed(c)
    /\ Listed(d)
    /\ Len(response[d].body) = 4

(***************************************************************************)
(* C4                                                                      *)
(***************************************************************************)
\* C4: a purchase_item call that has ended has ended in a confirmation
\* exactly when some catalog product has the ordered id, in a not-found
\* error exactly when none has, and so in exactly one of the two.
C4_TwoOutcomes ==
  \A c \in Callers : Purchased(c) =>
    /\ IsConfirmation(response[c]) <=> Hits(c) # {}
    /\ IsNotFound(response[c]) <=> Hits(c) = {}
    /\ IsConfirmation(response[c]) # IsNotFound(response[c])

\* Both outcomes are seen: a confirmation here, with no error beside it.
C4_Witness ==
  \E c \in Callers :
    /\ Purchased(c)
    /\ Hits(c) # {}
    /\ IsConfirmation(response[c])
    /\ ~ IsNotFound(response[c])

(***************************************************************************)
(* C5                                                                      *)
(***************************************************************************)
\* C5: two purchase_item calls with the same order have the same result,
\* whatever calls ran before, between or beside them.
C5_SameOrderSameResult ==
  \A c, d \in Callers :
    (Purchased(c) /\ Purchased(d) /\ request[c] = request[d]) =>
      response[c] = response[d]

\* Two callers have bought with the same order.
C5_Witness ==
  \E c, d \in Callers :
    /\ c # d
    /\ Confirmed(c)
    /\ Purchased(d)
    /\ request[c] = request[d]

(***************************************************************************)
(* C6                                                                      *)
(***************************************************************************)
\* C6: the product of a confirmation is the first catalog entry with the
\* ordered id, as the whole record; in the seed catalog that entry is the
\* only one with that id.
C6_FirstMatch ==
  \A c \in Callers : Confirmed(c) =>
    /\ response[c].body.product = FirstHit(c)
    /\ DOMAIN response[c].body.product =
         {"id", "name", "description", "price", "tax"}
    /\ store_inventory = SeedInventory => Cardinality(Hits(c)) = 1

\* A confirmation for an id that two catalog entries carry.
C6_Witness ==
  \E c \in Callers :
    /\ Confirmed(c)
    /\ Cardinality(Hits(c)) = 2
    /\ response[c].body.product.name = "Pizza"

(***************************************************************************)
(* C7                                                                      *)
(***************************************************************************)
\* C7: an order posted without a quantity is answered like the same order
\* with quantity 1: a confirmation with quantity 1 and total_price = price
\* plus effective tax of the matched product, or the same not-found error.
C7_DefaultQuantity ==
  \A c \in Callers : (Purchased(c) /\ ~ HasQuantity(c)) =>
    /\ response[c] =
         PurchaseResult([product_id |-> OrderId(c), buyer_name |-> OrderBuyer(c),
                         quantity |-> 1], store_inventory)
    /\ IF Hits(c) = {} THEN IsNotFound(response[c])
       ELSE /\ IsConfirmation(response[c])
            /\ response[c].body.quantity = 1
            /\ response[c].body.total_price =
                 FAdd(FirstHit(c).price, EffectiveTax(FirstHit(c)))

\* A confirmation for an order posted without a quantity.
C7_Witness ==
  \E c \in Callers :
    /\ Confirmed(c)
    /\ ~ HasQuantity(c)
    /\ response[c].body.quantity = 1

(***************************************************************************)
(* C8                                                                      *)
(***************************************************************************)
\* C8: a confirmation echoes the order: its quantity is the order's quantity
\* and its message is "Thank you {buyer_name} for your purchase!" with the
\* order's buyer_name.
C8_Echo ==
  \A c \in Callers : Confirmed(c) =>
    /\ response[c].body.quantity = OrderQuantity(c)
    /\ response[c].body.message =
         "Thank you " \o OrderBuyer(c) \o " for your purchase!"

\* Bob's confirmation for more than one unit.
C8_Witness ==
  \E c \in Callers :
    /\ Confirmed(c)
    /\ OrderBuyer(c) = "Bob"
    /\ HasQuantity(c)
    /\ OrderQuantity(c) > 1
    /\ response[c].body.message = "Thank you Bob for your purchase!"

(***************************************************************************)
(* C9                                                                      *)
(***************************************************************************)
\* What a call answers when it runs alone on the freshly started server.
AloneResult(req) ==
  IF req = ListRequest THEN [status |-> 200, body |-> SeedInventory]
  ELSE PurchaseResult(PurchaseOrder(req.payload), SeedInventory)

\* C9: with callers interleaved in any way, every call that has been
\* answered got the answer it gets when run alone, and the catalog has not
\* been written.
C9_AsIfAlone ==
  /\ store_inventory = SeedInventory
  /\ \A c \in Callers : Answered(c) => response[c] = AloneResult(request[c])

\* A call has been answered while another caller's different order waits.
C9_Witness ==
  \E c, d \in Callers :
    /\ c < d
    /\ Purchased(c)
    /\ request[d].op = "buy"
    /\ ~ Answered(d)
    /\ request[c] # request[d]

HasServers(schema) ==
  /\ "servers" \in DOMAIN schema
  /\ Len(schema.servers) = 1
  /\ schema.servers[1].url = "http://127.0.0.1:8000"

\* C11: for each application get_openapi has run at most once, exactly when
\* custom_openapi has been called at all; from the first call on
\* app.openapi_schema holds the generated schema with the one servers entry;
\* and every schema custom_openapi has returned, however long ago, is the
\* schema stored now and carries the servers entry.
C11_BuiltOnce ==
  /\ \A a \in Apps :
       /\ generated[a] = IF schema_calls[a] = 0 THEN 0 ELSE 1
       /\ (openapi_schema[a] = None) <=> (schema_calls[a] = 0)
       /\ openapi_schema[a] # None =>
            /\ HasServers(openapi_schema[a])
            /\ openapi_schema[a].info.title = AppTitle(a)
  /\ \A c \in Callers : schema_reply[c] # NoReply =>
       /\ schema_reply[c].schema = openapi_schema[schema_reply[c].app]
       /\ HasServers(schema_reply[c].schema)

\* An application's custom_openapi has been called more than once, and two
\* callers hold what it returned.
C11_Witness ==
  \E a \in Apps : \E c, d \in Callers :
    /\ c # d
    /\ schema_calls[a] >= 2
    /\ generated[a] = 1
    /\ schema_reply[c] # NoReply /\ schema_reply[c].app = a
    /\ schema_reply[d] # NoReply /\ schema_reply[d].app = a

(***************************************************************************)
(* C12                                                                     *)
(***************************************************************************)
IsUser(m) == m.role = "user"
IsReply(m) == m.role = "assistant" /\ "content" \in DOMAIN m
IsFunctionTraffic(m) == "function_call" \in DOMAIN m \/ "function_result" \in DOMAIN m
IsExitWord(text) == Lower(text) \in ExitWords

\* The inputs the loop processed: those typed that are no exit word.
Processed == SelectSeq(typed, LAMBDA t : ~ IsExitWord(t))

\* The user and assistant-reply messages of the history, in order.
Dialogue == SelectSeq(Tail(history), LAMBDA m : IsUser(m) \/ IsReply(m))

\* "exit" or "quit" in any letter case ends the loop at once, and is neither
\* added to the history nor sent to the chat service.
ExitEndsLoop ==
  /\ \A i \in 1..Len(typed) :
       IsExitWord(typed[i]) => (i = Len(typed) /\ agent_pc = "exited")
  /\ agent_pc = "exited" => (typed # <<>> /\ IsExitWord(typed[Len(typed)]))
  /\ \A i \in 2..Len(history) :
       IsUser(history[i]) => ~ IsExitWord(history[i].content)
  /\ Len(sent) = Len(Processed)
  /\ \A k \in 1..Len(sent) : \A i \in 2..Len(sent[k]) :
       IsUser(sent[k][i]) => ~ IsExitWord(sent[k][i].content)

====
